---- MODULE Spec2Model ----
(***************************************************************************)
(* F1 race replay window (src/src/arcade_replay.py): the playback state    *)
(* machine {frame_index, playback_speed, paused}, the viewport transform   *)
(* (update_scaling / world_to_screen / on_resize) and the leaderboard that *)
(* on_draw renders.                                                        *)
(*                                                                         *)
(* Python floats are modelled as exact rationals <<n, d>> (d > 0, lowest   *)
(* terms): doubling, halving and the comparisons against 0.1 and 1 that    *)
(* the playback code performs are exact on the values reached; the         *)
(* viewport arithmetic is modelled without IEEE rounding.                  *)
(***************************************************************************)
EXTENDS Integers, Sequences, FiniteSets, TLC

VARIABLES
    frames,               \* self.frames: sequence of frames, a frame is its "drivers" dict in insertion order
    n_frames,             \* self.n_frames
    playback_speed,       \* self.playback_speed (rational)
    frame_index,          \* self.frame_index
    paused,               \* self.paused
    x_min, x_max, y_min, y_max,                \* world bounding box
    world_inner_points, world_outer_points,    \* interpolated boundary points, world coordinates
    width, height,                             \* window size (arcade.Window.width / height)
    world_scale, tx, ty,                       \* viewport scale and translation (rationals)
    screen_inner_points, screen_outer_points,  \* cached screen-space boundary points
    drawn,                \* what the last on_draw emitted (<<>> before the first draw)
    error,                \* "none", or the exception that ended the event loop
    lastOp,               \* history: the handler that ran last ("__init__" after construction)
    prev,                 \* history: <<frame_index, playback_speed, paused>> before the last handler
    ticks                 \* history: number of handler calls so far if they were all on_update calls
                          \* taken unpaused at speed 1.0 (kept up to MaxTicks); -1 otherwise

playback == <<frame_index, playback_speed, paused>>
store    == <<frames, n_frames>>
geometry == <<x_min, x_max, y_min, y_max, world_inner_points, world_outer_points>>
viewport == <<width, height, world_scale, tx, ty, screen_inner_points, screen_outer_points>>
vars     == <<frames, n_frames, playback_speed, frame_index, paused,
              x_min, x_max, y_min, y_max, world_inner_points, world_outer_points,
              width, height, world_scale, tx, ty, screen_inner_points, screen_outer_points,
              drawn, error, lastOp, prev, ticks>>

----------------------------------------------------------------------------
(* Bounds of the model *)

MaxFrames == 100      \* longest frame sequence
MaxSpeed  == 4        \* double-speed is explored while playback_speed <= MaxSpeed
MaxSide   == 2        \* resize events deliver sizes in 1..MaxSide
MaxCoord  == 2        \* world coordinates range over -MaxCoord..MaxCoord
MaxTicks  == 104      \* the tick counter is kept up to MaxTicks

(* Program constants *)

SCREEN_WIDTH  == 1920
SCREEN_HEIGHT == 1200
SEEK_FRAMES   == 10
DEFAULT_DIST  == 999

----------------------------------------------------------------------------
(* Exact rational arithmetic standing for Python float arithmetic *)

Min(a, b) == IF a <= b THEN a ELSE b
Max(a, b) == IF a >= b THEN a ELSE b
Abs(a)    == IF a < 0 THEN -a ELSE a

RECURSIVE GCD(_, _)
GCD(a, b) == IF b = 0 THEN a ELSE GCD(b, a % b)

Rat(n, d) ==
    LET s == IF d < 0 THEN -1 ELSE 1
        g == GCD(Abs(n), Abs(d))
    IN  <<(s * n) \div g, (s * d) \div g>>

RInt(k)    == <<k, 1>>
RAdd(p, q) == Rat(p[1] * q[2] + q[1] * p[2], p[2] * q[2])
RSub(p, q) == Rat(p[1] * q[2] - q[1] * p[2], p[2] * q[2])
RMul(p, q) == Rat(p[1] * q[1], p[2] * q[2])
RDiv(p, q) == Rat(p[1] * q[2], p[2] * q[1])
RLe(p, q)  == p[1] * q[2] <= q[1] * p[2]
RLt(p, q)  == p[1] * q[2] < q[1] * p[2]
\* Python's max(a, b) and min(a, b): the first argument wins a tie
RMax(p, q) == IF RLt(p, q) THEN q ELSE p
RMin(p, q) == IF RLt(q, p) THEN q ELSE p
\* Python's int(x): truncation towards zero
PyInt(q)   == IF q[1] >= 0 THEN q[1] \div q[2] ELSE -((-q[1]) \div q[2])

----------------------------------------------------------------------------
(* Playback: on_update and on_key_press *)

Keys == {"SPACE", "RIGHT", "LEFT", "UP", "DOWN", "KEY_1", "KEY_2", "KEY_3", "KEY_4", "OTHER"}

\* faulty variant: the step without its floor of one frame
step_truncated(speed) == PyInt(speed)

\* on_update, line 380: step = max(1, int(self.playback_speed))
step(speed) == Max(1, PyInt(speed))

\* faulty variant: the index is not clamped to the last frame
advance_unclamped(fi, speed, n) == fi + Max(1, PyInt(speed))

\* faulty variant: playback loops back to the first frame at the end
advance_looping(fi, speed, n) ==
    LET moved == fi + Max(1, PyInt(speed))
    IN  IF moved >= n THEN 0 ELSE moved

\* on_update, lines 381-384: advance, then clamp to the last frame
advance(fi, speed, n) ==
    LET moved == fi + step(speed)
    IN  IF moved >= n THEN n - 1 ELSE moved

\* faulty variant: SPACE pauses but never resumes
toggle_pause_stuck(p) == TRUE

\* on_key_press, SPACE
toggle_pause(p) == ~p

\* faulty variant: seeking forward runs past the last frame
seek_forward_unclamped(fi, n) == fi + SEEK_FRAMES

\* on_key_press, RIGHT
seek_forward(fi, n) == Min(fi + SEEK_FRAMES, n - 1)

\* on_key_press, LEFT
seek_backward(fi) == Max(fi - SEEK_FRAMES, 0)

\* on_key_press, UP
double_speed(speed) == RMul(speed, RInt(2))

\* on_key_press, DOWN
halve_speed(speed) == RMax(Rat(1, 10), RDiv(speed, RInt(2)))

\* on_key_press, KEY_1 .. KEY_4
preset_speed(symbol) ==
    CASE symbol = "KEY_1" -> Rat(1, 2)
      [] symbol = "KEY_2" -> RInt(1)
      [] symbol = "KEY_3" -> RInt(2)
      [] symbol = "KEY_4" -> RInt(4)

\* history bookkeeping shared by the handlers
Record(op) ==
    /\ lastOp' = op
    /\ prev' = playback

on_update ==
    /\ error = "none"
    /\ IF paused
         THEN UNCHANGED frame_index
         ELSE frame_index' = advance(frame_index, playback_speed, n_frames)
    /\ UNCHANGED <<playback_speed, paused>>
    /\ Record("on_update")
    /\ ticks' = IF ticks >= 0 /\ ticks < MaxTicks /\ ~paused /\ playback_speed = RInt(1)
                  THEN ticks + 1 ELSE -1
    /\ UNCHANGED <<store, geometry, viewport, drawn, error>>

on_key_press(symbol) ==
    /\ error = "none"
    /\ symbol = "UP" => RLe(playback_speed, RInt(MaxSpeed))
    /\ paused' = IF symbol = "SPACE" THEN toggle_pause(paused) ELSE paused
    /\ frame_index' =
         CASE symbol = "RIGHT" -> seek_forward(frame_index, n_frames)
           [] symbol = "LEFT"  -> seek_backward(frame_index)
           [] OTHER            -> frame_index
    /\ playback_speed' =
         CASE symbol = "UP"   -> double_speed(playback_speed)
           [] symbol = "DOWN" -> halve_speed(playback_speed)
           [] symbol \in {"KEY_1", "KEY_2", "KEY_3", "KEY_4"} -> preset_speed(symbol)
           [] OTHER           -> playback_speed
    /\ Record(symbol)
    /\ ticks' = -1
    /\ UNCHANGED <<store, geometry, viewport, drawn, error>>

----------------------------------------------------------------------------
(* Viewport: update_scaling, on_resize, world_to_screen *)

padding == Rat(1, 20)

world_w == RMax(RInt(1), RInt(x_max - x_min))
world_h == RMax(RInt(1), RInt(y_max - y_min))

usable(screen_side) == RMul(RInt(screen_side), RSub(RInt(1), RMul(RInt(2), padding)))

\* faulty variant: the scale of the dimension that does not limit
fit_scale_widest(screen_w, screen_h) ==
    RMax(RDiv(usable(screen_w), world_w), RDiv(usable(screen_h), world_h))

\* update_scaling, lines 127-129: scale of the limiting dimension
fit_scale(screen_w, screen_h) ==
    LET scale_x == RDiv(usable(screen_w), world_w)
        scale_y == RDiv(usable(screen_h), world_h)
    IN  RMin(scale_x, scale_y)

\* update_scaling, lines 132-138: translation that centres the bounding box
fit_translation(scale, screen_side, lo, hi) ==
    LET world_c  == RDiv(RInt(lo + hi), RInt(2))
        screen_c == RDiv(RInt(screen_side), RInt(2))
    IN  RSub(screen_c, RMul(scale, world_c))

\* world_to_screen, lines 151-153, on explicit scale and translation
to_screen(scale, dx, dy, x, y) ==
    <<RAdd(RMul(scale, x), dx), RAdd(RMul(scale, y), dy)>>

world_to_screen(x, y) == to_screen(world_scale, tx, ty, x, y)

\* update_scaling, lines 141-142: the list comprehension over the world points
project(scale, dx, dy, points) ==
    [i \in DOMAIN points |-> to_screen(scale, dx, dy, RInt(points[i][1]), RInt(points[i][2]))]

\* faulty variant: the cached screen points are not regenerated
update_scaling_stale(screen_w, screen_h) ==
    /\ UNCHANGED geometry
    /\ world_scale' = fit_scale(screen_w, screen_h)
    /\ tx' = fit_translation(world_scale', screen_w, x_min, x_max)
    /\ ty' = fit_translation(world_scale', screen_h, y_min, y_max)
    /\ UNCHANGED <<screen_inner_points, screen_outer_points>>

update_scaling(screen_w, screen_h) ==
    /\ UNCHANGED geometry
    /\ world_scale' = fit_scale(screen_w, screen_h)
    /\ tx' = fit_translation(world_scale', screen_w, x_min, x_max)
    /\ ty' = fit_translation(world_scale', screen_h, y_min, y_max)
    /\ screen_inner_points' = project(world_scale', tx', ty', world_inner_points)
    /\ screen_outer_points' = project(world_scale', tx', ty', world_outer_points)

on_resize(w, h) ==
    /\ error = "none"
    /\ width' = w
    /\ height' = h
    /\ update_scaling(w, h)
    /\ Record("on_resize")
    /\ ticks' = -1
    /\ UNCHANGED <<store, playback, drawn, error>>

----------------------------------------------------------------------------
(* Rendering: the parts of on_draw that read the current frame *)

\* dict.get(key, default) on a driver entry
Get(pos, key, default) == IF key \in DOMAIN pos THEN pos[key] ELSE default

is_out(pos) == Get(pos, "rel_dist", 0) = 1

\* list.sort(key=dist, reverse=True) is stable: an entry goes after every
\* entry already placed whose key is >= its own
sort_key(pos) == Get(pos, "dist", DEFAULT_DIST)

RECURSIVE insert_sorted(_, _)
insert_sorted(sorted, pos) ==
    IF sorted = <<>> THEN <<pos>>
    ELSE IF sort_key(Head(sorted)) >= sort_key(pos)
           THEN <<Head(sorted)>> \o insert_sorted(Tail(sorted), pos)
           ELSE <<pos>> \o sorted

RECURSIVE sort_by_dist(_)
sort_by_dist(driver_list) ==
    IF driver_list = <<>> THEN <<>>
    ELSE insert_sorted(sort_by_dist(SubSeq(driver_list, 1, Len(driver_list) - 1)),
                       driver_list[Len(driver_list)])

\* faulty variant: the rows keep the dict's order (no sort)
leaderboard_unsorted(frame) ==
    [i \in DOMAIN frame |-> [current_pos |-> i, code |-> frame[i].code, out |-> is_out(frame[i])]]

\* on_draw, lines 315-339: one row per driver, in sorted order
leaderboard(frame) ==
    LET driver_list == sort_by_dist(frame)
    IN  [i \in DOMAIN driver_list |->
            [current_pos |-> i, code |-> driver_list[i].code, out |-> is_out(driver_list[i])]]

\* on_draw, lines 219-222: the cars drawn, retired ones skipped
RECURSIVE cars(_)
cars(frame) ==
    IF frame = <<>> THEN <<>>
    ELSE IF is_out(Head(frame)) THEN cars(Tail(frame))
         ELSE <<Head(frame).code>> \o cars(Tail(frame))

\* on_draw, lines 246-252: max() keeps the first entry with the greatest (lap, dist)
leader_key_less(a, b) ==
    \/ Get(a, "lap", 1) < Get(b, "lap", 1)
    \/ Get(a, "lap", 1) = Get(b, "lap", 1) /\ Get(a, "dist", 0) < Get(b, "dist", 0)

leader_code(frame) ==
    LET i == CHOOSE k \in DOMAIN frame :
                 /\ \A j \in DOMAIN frame : ~leader_key_less(frame[k], frame[j])
                 /\ \A j \in 1..(k - 1) : leader_key_less(frame[j], frame[k])
    IN  frame[i].code

\* Python indexing self.frames[i]: 0-based, a negative index counts from the end
index_ok(i)  == -n_frames <= i /\ i < n_frames
frame_at(i)  == IF i >= 0 THEN frames[i + 1] ELSE frames[n_frames + i + 1]

on_draw ==
    /\ error = "none"
    /\ IF ~index_ok(frame_index)
         THEN error' = "IndexError" /\ UNCHANGED drawn
       ELSE IF frame_at(frame_index) = <<>>
         THEN error' = "ValueError" /\ UNCHANGED drawn
       ELSE /\ drawn' = [cars   |-> cars(frame_at(frame_index)),
                         leader |-> leader_code(frame_at(frame_index)),
                         rows   |-> leaderboard(frame_at(frame_index))]
            /\ UNCHANGED error
    /\ Record("on_draw")
    /\ ticks' = -1
    /\ UNCHANGED <<store, geometry, viewport, playback>>

----------------------------------------------------------------------------
(* Construction (F1ReplayWindow.__init__) and the inputs explored *)

Codes == {"A", "B", "C"}
Dists == {10, 20, 30}

\* the frame of the leaderboard example: A(dist=10), B(dist=30), C(dist=20, rel_dist=1)
ExampleFrame ==
    << [code |-> "A", dist |-> 10],
       [code |-> "B", dist |-> 30],
       [code |-> "C", dist |-> 20, rel_dist |-> 1] >>

\* the entries a driver can have: "dist", "rel_dist" and "lap" are optional keys
Entries(c) ==
    LET base   == {[code |-> c]}
        opt(S, key, vals) == S \cup {[k \in DOMAIN e \cup {key} |->
                                         IF k = key THEN v ELSE e[k]] : e \in S, v \in vals}
    IN  opt(opt(opt(base, "dist", Dists), "rel_dist", {1}), "lap", {2})

\* every ordering of every non-empty subset of Codes, with every choice of entries
RECURSIVE FramesOver(_)
FramesOver(cs) ==
    IF cs = {} THEN {<<>>}
    ELSE {<<>>} \cup UNION {{<<e>> \o rest : e \in Entries(c), rest \in FramesOver(cs \ {c})} : c \in cs}

FrameCounts == {1, 2, 12, MaxFrames}
InitSpeeds  == {RInt(1), Rat(1, 20)}
Coords      == -MaxCoord..MaxCoord
Boxes       == {b \in Coords \X Coords \X Coords \X Coords : b[1] <= b[2] /\ b[3] <= b[4]}
\* a regular box and a box of zero width
FewBoxes    == {b \in Boxes : b[1] = -1 /\ b[3] = 0 /\ b[2] \in {-1, MaxCoord} /\ b[4] = 1}
Sides       == 1..MaxSide

construct(frs, speed, box) ==
    /\ frames = frs
    /\ n_frames = Len(frs)
    /\ playback_speed = speed
    /\ frame_index = 0
    /\ paused = FALSE
    /\ x_min = box[1]
    /\ x_max = box[2]
    /\ y_min = box[3]
    /\ y_max = box[4]
    /\ world_inner_points = <<<<box[1], box[3]>>, <<box[2], box[4]>>>>
    /\ world_outer_points = <<<<box[1], box[4]>>, <<box[2], box[3]>>>>
    /\ width = SCREEN_WIDTH
    /\ height = SCREEN_HEIGHT
    /\ world_scale = fit_scale(width, height)
    /\ tx = fit_translation(world_scale, width, x_min, x_max)
    /\ ty = fit_translation(world_scale, height, y_min, y_max)
    /\ screen_inner_points = project(world_scale, tx, ty, world_inner_points)
    /\ screen_outer_points = project(world_scale, tx, ty, world_outer_points)
    /\ drawn = <<>>
    /\ error = "none"
    /\ lastOp = "__init__"
    /\ prev = playback
    /\ ticks = 0

StandardFrames(n) == [i \in 1..n |-> ExampleFrame]

----------------------------------------------------------------------------
(* Spec: every handler, on short replays over a few tracks *)

Init ==
    \E n \in {2}, speed \in InitSpeeds, box \in FewBoxes :
        construct(StandardFrames(n), speed, box)

Next ==
    \/ on_update
    \/ \E symbol \in Keys : on_key_press(symbol)
    \/ \E w \in Sides, h \in Sides : on_resize(w, h)
    \/ on_draw

Spec == Init /\ [][Next]_vars

(* PlaybackSpec: the playback controller (ticks, keys, draws) on replays of
   up to MaxFrames frames *)

InitPlayback ==
    \E n \in FrameCounts, speed \in InitSpeeds :
        construct(StandardFrames(n), speed, <<0, MaxCoord, 0, 1>>)

NextPlayback ==
    \/ on_update
    \/ \E symbol \in Keys : on_key_press(symbol)
    \/ on_draw

PlaybackSpec == InitPlayback /\ [][NextPlayback]_vars

(* LiveSpec: playback that is never paused and never sought backward, with
   the event loop calling on_update again and again *)

NextForward ==
    \/ on_update
    \/ \E symbol \in Keys \ {"SPACE", "LEFT"} : on_key_press(symbol)
    \/ on_draw

LiveSpec == InitPlayback /\ [][NextForward]_vars /\ WF_vars(on_update)

(* EmptySpec: construction from frame sequences that may be empty *)

InitEmpty ==
    \E n \in {0, 1}, speed \in InitSpeeds :
        construct(StandardFrames(n), speed, <<0, MaxCoord, 0, 1>>)

EmptySpec == InitEmpty /\ [][Next]_vars

(* ViewSpec: update_scaling over every bounding box and window size *)

InitView ==
    \E box \in Boxes : construct(StandardFrames(1), RInt(1), box)

NextView == \E w \in Sides, h \in Sides : on_resize(w, h)

ViewSpec == InitView /\ [][NextView]_vars

(* BoardSpec: on_draw over every frame of up to three drivers *)

InitBoard ==
    \E frame \in FramesOver(Codes) \ {<<>>} : construct(<<frame>>, RInt(1), <<0, MaxCoord, 0, 1>>)

NextBoard == on_draw

BoardSpec == InitBoard /\ [][NextBoard]_vars

----------------------------------------------------------------------------
(* Properties *)

Clamp(v, lo, hi) == Max(lo, Min(v, hi))
\* mathematical floor of a rational
Floor(q)         == q[1] \div q[2]

\* C1: on a replay of at least one frame the current frame index stays within
\* 0 .. n_frames-1 in every reachable state, so drawing never indexes outside
\* the frame sequence.
C1_FrameIndexInRange ==
    n_frames >= 1 =>
        /\ 0 <= frame_index
        /\ frame_index <= n_frames - 1
        /\ error = "none"

\* a tick that was clamped at the last frame of a replay of several frames
C1_Witness ==
    /\ lastOp = "on_update"
    /\ n_frames > 1
    /\ ~prev[3]
    /\ prev[1] + Max(1, Floor(prev[2])) > n_frames - 1
    /\ frame_index = n_frames - 1

\* C2: an unpaused tick sets the index to
\* min(index + max(1, floor(speed)), n_frames-1) and keeps speed and paused;
\* a paused tick changes nothing.
C2_TickEffect ==
    lastOp = "on_update" =>
        IF prev[3]
          THEN playback = prev
          ELSE /\ frame_index = Min(prev[1] + Max(1, Floor(prev[2])), n_frames - 1)
               /\ playback_speed = prev[2]
               /\ paused = prev[3]

\* an unpaused tick at a speed below 1.0 that advanced exactly one frame
C2_Witness ==
    /\ lastOp = "on_update"
    /\ ~prev[3]
    /\ RLt(prev[2], RInt(1))
    /\ frame_index = prev[1] + 1

\* C3: seeking by +10 or -10 sets the index to clamp(index + delta, 0, n_frames-1),
\* paused or not, and keeps speed and paused.
C3_SeekEffect ==
    /\ lastOp = "RIGHT" =>
          /\ frame_index = Clamp(prev[1] + 10, 0, n_frames - 1)
          /\ playback_speed = prev[2]
          /\ paused = prev[3]
    /\ lastOp = "LEFT" =>
          /\ frame_index = Clamp(prev[1] - 10, 0, n_frames - 1)
          /\ playback_speed = prev[2]
          /\ paused = prev[3]

\* the example: paused at index 95 of 100 frames, seek +10 gives 99
C3_Witness ==
    /\ lastOp = "RIGHT"
    /\ n_frames = 100
    /\ prev[3]
    /\ prev[1] = 95
    /\ frame_index = 99

\* C4: the speed multiplier is at least 0.1 in every state reachable from
\* construction with the configured initial speed.
C4_SpeedFloor == RLe(Rat(1, 10), playback_speed)

\* C5: unpaused and never sought backward, under fair ticking the index
\* eventually reaches n_frames-1 and then stays there; at speed 1 from index 0
\* the index after k ticks is min(k, n_frames-1) (50 after 50 ticks and 99
\* after 100 or more ticks of a 100-frame replay).
C5_ReachesEndAndHolds ==
    /\ <>(frame_index = n_frames - 1)
    /\ [][frame_index = n_frames - 1 => frame_index' = n_frames - 1]_vars
    /\ [](ticks >= 0 => frame_index = Min(ticks, n_frames - 1))
    /\ [](n_frames = 100 /\ ticks = 50 => frame_index = 50)
    /\ [](n_frames = 100 /\ ticks >= 100 => frame_index = 99)

\* a 100-frame replay after exactly 100 ticks at speed 1
C5_Witness ==
    /\ n_frames = 100
    /\ ticks = 100
    /\ frame_index = 99

EntryOf(frame, c) == frame[CHOOSE k \in DOMAIN frame : frame[k].code = c]
DistOf(e)         == IF "dist" \in DOMAIN e THEN e.dist ELSE 999
Retired(e)        == "rel_dist" \in DOMAIN e /\ e.rel_dist = 1
RowCodes(rows)    == [i \in DOMAIN rows |-> rows[i].code]

\* what both readings of the leaderboard share: one row per driver, numbered
\* from 1, a row marked OUT exactly when its driver's flag is 1
RowsListFrame(frame, rows) ==
    /\ Len(rows) = Len(frame)
    /\ {rows[i].code : i \in DOMAIN rows} = {frame[k].code : k \in DOMAIN frame}
    /\ \A i \in DOMAIN rows :
          /\ rows[i].current_pos = i
          /\ rows[i].out <=> Retired(EntryOf(frame, rows[i].code))

\* C6 as stated: retired drivers are listed after the non-retired ones, which
\* are ordered by descending distance; the example frame gives B, A, C.
\* (Stated over the frames in which every driver carries a distance.)
C6_RetiredListedLast ==
    (drawn # <<>> /\ \A k \in DOMAIN frames[1] : "dist" \in DOMAIN frames[1][k]) =>
        LET frame == frames[1]
            rows  == drawn.rows
        IN  /\ RowsListFrame(frame, rows)
            /\ \A i, j \in DOMAIN rows :
                  (i < j /\ ~rows[i].out /\ ~rows[j].out) =>
                      DistOf(EntryOf(frame, rows[i].code)) >= DistOf(EntryOf(frame, rows[j].code))
            /\ \A i, j \in DOMAIN rows : (i < j /\ rows[i].out) => rows[j].out
            /\ frame = ExampleFrame => RowCodes(rows) = <<"B", "A", "C">>

\* C6 amended: every driver, retired or not, is listed by descending distance
\* (a driver without a distance counts as 999) and a retired driver is marked
\* OUT where its distance places it; the example frame gives B, C, A with C
\* marked OUT.
C6_ListedByDistance ==
    drawn # <<>> =>
        LET frame == frames[1]
            rows  == drawn.rows
        IN  /\ RowsListFrame(frame, rows)
            /\ \A i, j \in DOMAIN rows :
                  i < j => DistOf(EntryOf(frame, rows[i].code)) >= DistOf(EntryOf(frame, rows[j].code))
            /\ frame = ExampleFrame =>
                  /\ RowCodes(rows) = <<"B", "C", "A">>
                  /\ rows[2].out
                  /\ ~rows[1].out /\ ~rows[3].out

\* the example frame has been drawn, with retired C between B and A
C6_Witness ==
    /\ drawn # <<>>
    /\ frames[1] = ExampleFrame
    /\ RowCodes(drawn.rows) = <<"B", "C", "A">>
    /\ drawn.rows[2].out

\* C7: constructing the replay from an empty frame sequence fails, so no
\* handler (tick, key, resize, draw) ever runs with n_frames = 0.
C7_EmptyFramesFailFast ==
    n_frames = 0 => lastOp = "__init__"

\* C8: after update_scaling the centre of the bounding box maps to the centre
\* of the screen, every corner of the box maps inside the rectangle padded by
\* 5% of each screen dimension, and one scale, the smaller of the two fits,
\* serves both axes.
C8_CentredAndInside ==
    LET ww == Max(1, x_max - x_min)
        wh == Max(1, y_max - y_min)
    IN  /\ world_to_screen(Rat(x_min + x_max, 2), Rat(y_min + y_max, 2))
              = <<Rat(width, 2), Rat(height, 2)>>
        /\ \A x \in {x_min, x_max}, y \in {y_min, y_max} :
              LET s == world_to_screen(RInt(x), RInt(y))
              IN  /\ RLe(Rat(width, 20), s[1])
                  /\ RLe(s[1], Rat(19 * width, 20))
                  /\ RLe(Rat(height, 20), s[2])
                  /\ RLe(s[2], Rat(19 * height, 20))
        /\ world_scale = RMin(Rat(9 * width, 10 * ww), Rat(9 * height, 10 * wh))

\* a resize to a portrait window over a bounding box of zero width
C8_Witness ==
    /\ lastOp = "on_resize"
    /\ x_min = x_max
    /\ y_min < y_max
    /\ width < height

\* C9: toggle-pause flips paused and keeps index and speed; two toggles in a
\* row restore the playback state.
C9_TogglePauseOnly ==
    [][ /\ lastOp' = "SPACE" =>
              /\ frame_index' = frame_index
              /\ playback_speed' = playback_speed
              /\ paused' = ~paused
        /\ (lastOp = "SPACE" /\ lastOp' = "SPACE") => playback' = prev ]_vars

\* playback resumed by SPACE in the middle of a replay
C9_Witness ==
    /\ lastOp = "SPACE"
    /\ prev[3]
    /\ ~paused
    /\ frame_index > 0

\* C10: in every state the cached screen points are the world boundary points
\* under the current scale and translation, which are those update_scaling
\* derives from the current window size; a resize leaves playback alone.
C10_CacheMatchesViewport ==
    /\ screen_inner_points =
          [i \in DOMAIN world_inner_points |->
              world_to_screen(RInt(world_inner_points[i][1]), RInt(world_inner_points[i][2]))]
    /\ screen_outer_points =
          [i \in DOMAIN world_outer_points |->
              world_to_screen(RInt(world_outer_points[i][1]), RInt(world_outer_points[i][2]))]
    /\ world_scale = fit_scale(width, height)
    /\ tx = fit_translation(world_scale, width, x_min, x_max)
    /\ ty = fit_translation(world_scale, height, y_min, y_max)
    /\ lastOp = "on_resize" => playback = prev

\* a resize to a portrait window while paused in the middle of a replay
C10_Witness ==
    /\ lastOp = "on_resize"
    /\ width < height
    /\ paused
    /\ frame_index > 0
    /\ drawn # <<>>

====
